---- MODULE Spec2Model ----
(***************************************************************************)
(* Model of the AWS cost reports of cost-analysis-scripts.                 *)
(*                                                                         *)
(* Every script is a linear pass: fetch the linked-account catalog         *)
(* (get_dimension_values, cursor-paginated), fetch grouped costs           *)
(* (get_cost_and_usage), aggregate, render.  The upstream API is the       *)
(* environment: each response's entries, groups and NextPageToken are      *)
(* chosen nondeterministically, one loop iteration per step.               *)
(*                                                                         *)
(* Python dicts whose iteration order is never observed are functions      *)
(* whose DOMAIN is the key set; dicts that are iterated or sorted          *)
(* (account_totals, service_totals, totals) are insertion-ordered          *)
(* sequences of <<key, value>> pairs.  Amounts are exact integers of one   *)
(* thousandth of a dollar; the binary floating-point rounding error of     *)
(* sums of float() values is not modelled.                                 *)
(***************************************************************************)
EXTENDS Integers, Sequences, FiniteSets, Bags, TLC

VARIABLES
    script,         \* the script whose code is running
    pc,             \* position in that script
    token,          \* local `token` of the pagination loops
    kwargsToken,    \* kwargs.get("NextPageToken") of the latest request
    respToken,      \* resp.get("NextPageToken") of the latest response
    npages,         \* number of requests issued by the current loop
    v,              \* loop variable of `for v in resp.get("DimensionValues", [])`
    nseen,          \* number of catalog entries the upstream has delivered
    seen,           \* history: the <<id, label>> of every entry with an id, in order
    accounts,       \* list `accounts` / `out` of the list-based catalogs
    dedup,          \* list `dedup` returned by the list-based catalogs
    account_names,  \* dict `account_names` of get_account_service_costs
    groups,         \* history: the bag of cost groups the upstream has delivered
    costs,          \* dict of dicts `costs[account_id][service]`
    account_totals, \* dict `account_totals`, in insertion order
    service_totals, \* dict `service_totals`, in insertion order
    report,         \* what main printed and wrote to the CSV file
    kwargsFilter,   \* account of kwargs["Filter"] of get_service_costs, None without
    totals,         \* dict `totals` of get_service_costs, in insertion order
    argv,           \* the command line of main
    exit_status,    \* how main ended, None while it runs
    log,            \* the lines about progress and failures main has printed, in order
    calls,          \* history: the sessions created and upstream calls made, in order
    caught,         \* history: the exceptions an except clause has caught, in order
    todo,           \* the accounts the account loop has not reached yet
    regions,        \* the regions the region loop has not reached yet
    period1_costs,  \* dict returned by get_service_costs for the first period
    period2_costs,  \* dict returned by get_service_costs for the second period
    comparisons,    \* list returned by compare_costs
    section,        \* <<account_id, account_name>> of the comparison being rendered
    printed,        \* the comparison tables printed, in order
    csv_rows,       \* list `csv_rows` of aws_cost_compare.main
    csv_written     \* whether main has written its CSV file

catVars == <<v, nseen, seen, accounts, dedup, account_names>>
pageVars == <<token, kwargsToken, respToken, npages>>
costVars == <<groups, costs, account_totals, service_totals, report>>
svcVars == <<kwargsFilter, totals>>
fetchVars == <<pageVars, catVars, costVars, svcVars>>
runVars == <<argv, exit_status, log, calls, caught, todo, regions>>
cmpVars == <<period1_costs, period2_costs, comparisons, section, printed, csv_rows, csv_written>>
vars == <<script, pc, fetchVars, runVars, cmpVars>>

----------------------------------------------------------------------------
(* Bounds of the model *)

MaxPages == 2       \* pages the upstream serves to one pagination loop
MaxEntries == 3     \* catalog entries the upstream serves to one fetch
MaxGroups == 3      \* cost groups the upstream serves to one fetch

----------------------------------------------------------------------------
(* Python values *)

None == "<None>"
EmptyDict == [k \in {} |-> k]

\* Faulty variant of truthiness: only None counts as false, an empty string is true
TruthyUnlessNone(x) == x # None

\* Python truthiness of a str-or-None value: `if token`, `if account_id`, `x or y`
Truthy(x) == x # None /\ x # ""

\* d.get(k, default) of a dict modelled as a function
Get(d, k, default) == IF k \in DOMAIN d THEN d[k] ELSE default

\* d[k] = val of a dict modelled as a function
Put(d, k, val) == [x \in DOMAIN d \cup {k} |-> IF x = k THEN val ELSE d[x]]

\* The keys of an insertion-ordered dict (a sequence of <<key, value>> pairs)
Keys(d) == {d[i][1] : i \in 1..Len(d)}

\* d.get(k, default) of an insertion-ordered dict
GetItem(d, k, default) ==
    IF k \in Keys(d) THEN d[CHOOSE i \in 1..Len(d) : d[i][1] = k][2] ELSE default

\* d[k] += amount of an insertion-ordered defaultdict(float)
AddItem(d, k, amount) ==
    IF k \in Keys(d)
    THEN [i \in 1..Len(d) |-> IF d[i][1] = k THEN <<k, d[i][2] + amount>> ELSE d[i]]
    ELSE Append(d, <<k, amount>>)

\* Nothing printed, nothing written
NoReport == [written |-> FALSE]

\* The variables of the report mains, while a fetch runs on its own
IdleRun ==
    /\ argv = EmptyDict
    /\ exit_status = None
    /\ log = <<>>
    /\ calls = <<>>
    /\ caught = <<>>
    /\ todo = <<>>
    /\ regions = <<>>
    /\ period1_costs = EmptyDict
    /\ period2_costs = EmptyDict
    /\ comparisons = <<>>
    /\ section = <<>>
    /\ printed = <<>>
    /\ csv_rows = <<>>
    /\ csv_written = FALSE

----------------------------------------------------------------------------
(* The upstream: cursors and catalog entries *)

CursorNames == <<"page1", "page2", "page3", "page4", "page5">>

\* The cursor that names page n of a paginated result
Cursor(n) == CursorNames[n]

\* NextPageToken of the response that serves page n of a result of at most
\* MaxPages pages: absent, empty, or the cursor of page n + 1
UpstreamCursors(n) ==
    IF n < MaxPages THEN {None, "", Cursor(n + 1)} ELSE {None, ""}

AccountIds == {"111", "222"}
Descriptions == {"Prod", "Dev"}

\* One element of DimensionValues: "Value" and "Attributes" may each be missing,
\* the Value may be empty, the Attributes may lack "description"
DimensionValueChoices ==
    LET valueParts == {EmptyDict} \cup {[Value |-> x] : x \in AccountIds \cup {""}}
        attrParts == {EmptyDict} \cup
                     {[Attributes |-> a] :
                         a \in {EmptyDict} \cup {[description |-> d] : d \in Descriptions}}
    IN {p @@ q : p \in valueParts, q \in attrParts}

----------------------------------------------------------------------------
(* Dimension catalog fetch *)

\* The list-based catalog (aws_cost_compare.get_linked_accounts; the loops of
\* aws_cost.get_linked_accounts_ce and list_accounts.get_linked_accounts are
\* textual copies) and the dict-based loop of get_account_service_costs
ListScript == "aws_cost_compare"
DictScript == "account_service_costs"

\* Faulty variant: the cursor is never passed on
RequestCursorNever(tok) == None

\* if token: kwargs["NextPageToken"] = token
RequestCursor(tok) == IF Truthy(tok) THEN tok ELSE None

\* account_id = v.get("Value")
EntryId(e) == Get(e, "Value", None)

\* Faulty variant: entries without an identifier are recorded too
HasIdAlways(e) == TRUE

\* if account_id:
HasId(e) == Truthy(EntryId(e))

\* name = None; attrs = v.get("Attributes")
\* if attrs and "description" in attrs: name = attrs["description"]
EntryName(e) ==
    LET attrs == Get(e, "Attributes", None)
    IN IF "Attributes" \in DOMAIN e /\ attrs # EmptyDict /\ "description" \in DOMAIN attrs
       THEN attrs["description"]
       ELSE None

\* attrs.get("description") if attrs else None
EntryDescription(e) ==
    LET attrs == Get(e, "Attributes", None)
    IN IF "Attributes" \in DOMAIN e /\ attrs # EmptyDict
       THEN Get(attrs, "description", None)
       ELSE None

\* De-duplicate: keep the first pair of every id, in order
RECURSIVE DedupFrom(_, _)
DedupFrom(list, out) ==
    IF list = <<>> THEN out
    ELSE LET aid == Head(list)[1]
         IN DedupFrom(Tail(list),
                      IF \E i \in 1..Len(out) : out[i][1] = aid
                      THEN out
                      ELSE Append(out, Head(list)))

Dedup(list) == DedupFrom(list, <<>>)

\* resp = ce.get_dimension_values(**kwargs)
GetDimensionValues ==
    /\ pc = "dim_request"
    /\ npages < MaxPages
    /\ kwargsToken' = RequestCursor(token)
    /\ \E next \in UpstreamCursors(npages + 1) : respToken' = next
    /\ npages' = npages + 1
    /\ pc' = "dim_values"
    /\ UNCHANGED <<script, token, catVars, costVars, svcVars, runVars, cmpVars>>

\* One iteration of `for v in resp.get("DimensionValues", [])`
DimensionValue ==
    /\ pc = "dim_values"
    /\ nseen < MaxEntries
    /\ \E e \in DimensionValueChoices :
        /\ v' = e
        /\ IF script = ListScript
           THEN /\ accounts' = IF HasId(e)
                               THEN Append(accounts, <<EntryId(e), EntryName(e)>>)
                               ELSE accounts
                /\ seen' = IF HasId(e)
                           THEN Append(seen, <<EntryId(e), EntryName(e)>>)
                           ELSE seen
                /\ UNCHANGED account_names
           ELSE /\ account_names' = IF HasId(e)
                                    THEN Put(account_names, EntryId(e), EntryDescription(e))
                                    ELSE account_names
                /\ seen' = IF HasId(e)
                           THEN Append(seen, <<EntryId(e), EntryDescription(e)>>)
                           ELSE seen
                /\ UNCHANGED accounts
    /\ nseen' = nseen + 1
    /\ UNCHANGED <<script, pc, pageVars, dedup, costVars, svcVars, runVars, cmpVars>>

\* token = resp.get("NextPageToken"); if not token: break
NextPageOrBreak ==
    /\ pc = "dim_values"
    /\ token' = respToken
    /\ pc' = IF Truthy(respToken) THEN "dim_request"
             ELSE IF script = ListScript THEN "dedup" ELSE "cost_init"
    /\ UNCHANGED <<script, kwargsToken, respToken, npages, catVars, costVars, svcVars, runVars, cmpVars>>

\* seen, dedup = set(), []; for aid, name in accounts: ...; return dedup
Deduplicate ==
    /\ pc = "dedup"
    /\ dedup' = Dedup(accounts)
    /\ pc' = "done"
    /\ UNCHANGED <<script, pageVars, v, nseen, seen, accounts, account_names, costVars, svcVars, runVars, cmpVars>>

InitCatalog ==
    /\ script \in {ListScript, DictScript}
    /\ pc = "dim_request"
    /\ token = None
    /\ kwargsToken = None
    /\ respToken = None
    /\ npages = 0
    /\ v = EmptyDict
    /\ nseen = 0
    /\ seen = <<>>
    /\ accounts = <<>>
    /\ dedup = <<>>
    /\ account_names = EmptyDict
    /\ groups = EmptyBag
    /\ costs = EmptyDict
    /\ account_totals = <<>>
    /\ service_totals = <<>>
    /\ report = NoReport
    /\ kwargsFilter = None
    /\ totals = <<>>
    /\ IdleRun

NextCatalog ==
    \/ GetDimensionValues
    \/ DimensionValue
    \/ NextPageOrBreak
    \/ Deduplicate

SpecCatalog == InitCatalog /\ [][NextCatalog]_vars

----------------------------------------------------------------------------
(* Claims about the dimension catalog fetch *)

IsRequest == npages' = npages + 1
IsEntry == nseen' = nseen + 1
IsEndOfPage == pc = "dim_values" /\ pc' # "dim_values"

\* What the catalog contract expects of one entry
WantedId(e) == "Value" \in DOMAIN e /\ e.Value # ""
WantedLabel(e) ==
    IF "Attributes" \in DOMAIN e /\ "description" \in DOMAIN e.Attributes
    THEN e.Attributes.description
    ELSE None

IdsOf(list) == {list[i][1] : i \in 1..Len(list)}

\* C4: every catalog fetch sends its first request without a cursor and each
\* later request with exactly the cursor of the preceding response, leaves the
\* loop at the first response without a (non-empty) cursor and only there,
\* skips an entry without an identifier, records every entry that has one,
\* with an unset label when Attributes or the description is missing, and
\* returns every identifier it recorded.
C4_CatalogPagination ==
    /\ [][/\ IsRequest =>
                kwargsToken' = (IF npages = 0 THEN None ELSE respToken)
          /\ IsEndOfPage =>
                /\ (pc' = "dim_request") <=> (respToken # None /\ respToken # "")
                /\ pc' # "dim_request" => pc' \in {"dedup", "cost_init"}
          /\ (IsEntry /\ script = ListScript) =>
                accounts' = (IF WantedId(v')
                             THEN Append(accounts, <<v'.Value, WantedLabel(v')>>)
                             ELSE accounts)
          /\ (IsEntry /\ script = DictScript) =>
                /\ DOMAIN account_names \subseteq DOMAIN account_names'
                /\ IF WantedId(v')
                   THEN /\ v'.Value \in DOMAIN account_names'
                        /\ WantedLabel(v') = None => account_names'[v'.Value] = None
                   ELSE account_names' = account_names
         ]_vars
    /\ [](pc = "done" /\ script = ListScript => IdsOf(dedup) = IdsOf(accounts))

\* A two-page list-based fetch that skipped an entry and returned an unnamed one
C4_Witness ==
    /\ pc = "done"
    /\ script = ListScript
    /\ npages = 2
    /\ kwargsToken = Cursor(2)
    /\ Len(accounts) < nseen
    /\ \E i \in 1..Len(dedup) : dedup[i][2] = None

\* A two-page dict-based fetch that skipped an entry and recorded an unnamed one
C4_WitnessDict ==
    /\ pc = "cost_init"
    /\ npages = 2
    /\ kwargsToken = Cursor(2)
    /\ Len(seen) < nseen
    /\ \E a \in DOMAIN account_names : account_names[a] = None

\* The label of the first entry of `list` that carries identifier aid
FirstLabel(list, aid) ==
    list[CHOOSE i \in 1..Len(list) :
            list[i][1] = aid /\ \A j \in 1..(i - 1) : list[j][1] # aid][2]

\* C6: however often the upstream repeats an identifier, the merged catalog has
\* exactly one entry for it and that entry keeps the first-seen label, in the
\* list-based catalogs and in the account_names mapping alike.
C6_FirstSeenLabelKept ==
    /\ (pc = "done" /\ script = ListScript) =>
          \A aid \in IdsOf(seen) :
              /\ Cardinality({i \in 1..Len(dedup) : dedup[i][1] = aid}) = 1
              /\ \A i \in 1..Len(dedup) :
                    dedup[i][1] = aid => dedup[i][2] = FirstLabel(seen, aid)
    /\ (pc = "cost_init" /\ script = DictScript) =>
          \A aid \in IdsOf(seen) :
              /\ aid \in DOMAIN account_names
              /\ account_names[aid] = FirstLabel(seen, aid)

----------------------------------------------------------------------------
(* Money.  Amounts are integers of one thousandth of a dollar, so that both   *)
(* roundings of the reports (whole dollars on the terminal, cents in the CSV) *)
(* are conversions that lose something.                                       *)

Services == {"EC2", "S3"}
Amounts == {-1000, 0, 504}

\* x / unit rounded to the nearest integer, ties to the even one
RoundHalfEven(x, unit) ==
    LET q == x \div unit
        r == x % unit
    IN IF 2 * r < unit THEN q
       ELSE IF 2 * r > unit THEN q + 1
       ELSE IF q % 2 = 0 THEN q ELSE q + 1

\* f"{x:,.0f}": whole dollars
FormatDollars(x) == RoundHalfEven(x, 1000)

\* round(x, 2): cents
Round2(x) == RoundHalfEven(x, 10)

\* Sum of the values of an insertion-ordered dict or of a list of pairs
RECURSIVE SumValues(_)
SumValues(d) == IF d = <<>> THEN 0 ELSE Head(d)[2] + SumValues(Tail(d))

\* Sum of a sequence of numbers
RECURSIVE SumSeq(_)
SumSeq(q) == IF q = <<>> THEN 0 ELSE Head(q) + SumSeq(Tail(q))

\* list.sort(key=lambda x: x[1], reverse=True) and sorted(..., reverse=True):
\* descending by value, pairs of equal value keep their order
RECURSIVE SortDescFrom(_, _)
SortDescFrom(list, out) ==
    IF list = <<>> THEN out
    ELSE LET item == Head(list)
             n == Cardinality({i \in 1..Len(out) : out[i][2] >= item[2]})
         IN SortDescFrom(Tail(list),
                         SubSeq(out, 1, n) \o <<item>> \o SubSeq(out, n + 1, Len(out)))

SortDesc(list) == SortDescFrom(list, <<>>)

----------------------------------------------------------------------------
(* account_service_costs.py: the cost loop of get_account_service_costs *)

\* One element of Groups of a query grouped by LINKED_ACCOUNT and SERVICE
AccountServiceGroups ==
    {[Keys |-> <<a, s>>, Amount |-> m] : a \in AccountIds, s \in Services, m \in Amounts}

\* Faulty variant: zero amounts are retained
RetainedNonNegative(amount) == amount >= 0

\* if amount > 0:
Retained(amount) == amount > 0

\* costs[account_id][service] += amount
NextCosts(group) ==
    LET account_id == group.Keys[1]
        service == group.Keys[2]
        row == Get(costs, account_id, EmptyDict)
    IN IF Retained(group.Amount)
       THEN Put(costs, account_id, Put(row, service, Get(row, service, 0) + group.Amount))
       ELSE costs

\* account_totals[account_id] += amount
NextAccountTotals(group) ==
    IF Retained(group.Amount)
    THEN AddItem(account_totals, group.Keys[1], group.Amount)
    ELSE account_totals

\* Faulty variant: the service total is updated outside the guard
NextServiceTotalsUnguarded(group) ==
    AddItem(service_totals, group.Keys[2], group.Amount)

\* service_totals[service] += amount
NextServiceTotals(group) ==
    IF Retained(group.Amount)
    THEN AddItem(service_totals, group.Keys[2], group.Amount)
    ELSE service_totals

\* costs = defaultdict(...); account_totals = ...; service_totals = ...; token = None
StartCostLoop ==
    /\ pc = "cost_init"
    /\ costs' = EmptyDict
    /\ account_totals' = <<>>
    /\ service_totals' = <<>>
    /\ token' = None
    /\ npages' = 0
    /\ pc' = "cost_request"
    /\ UNCHANGED <<script, kwargsToken, respToken, catVars, groups, report, svcVars, runVars, cmpVars>>

\* resp = ce.get_cost_and_usage(**kwargs)
GetCostAndUsage ==
    /\ pc = "cost_request"
    /\ npages < MaxPages
    /\ kwargsToken' = RequestCursor(token)
    /\ \E next \in UpstreamCursors(npages + 1) : respToken' = next
    /\ npages' = npages + 1
    /\ pc' = "cost_groups"
    /\ UNCHANGED <<script, token, catVars, costVars, svcVars, runVars, cmpVars>>

\* One iteration of `for group in period.get("Groups", [])`, whatever the
\* time bucket (`period`) the group belongs to
CostGroup ==
    /\ pc = "cost_groups"
    /\ BagCardinality(groups) < MaxGroups
    /\ \E group \in AccountServiceGroups :
        /\ groups' = groups (+) SetToBag({group})
        /\ costs' = NextCosts(group)
        /\ account_totals' = NextAccountTotals(group)
        /\ service_totals' = NextServiceTotals(group)
    /\ UNCHANGED <<script, pc, pageVars, catVars, report, svcVars, runVars, cmpVars>>

\* token = resp.get("NextPageToken"); if not token: break; return ...
NextCostPageOrReturn ==
    /\ pc = "cost_groups"
    /\ token' = respToken
    /\ pc' = IF Truthy(respToken) THEN "cost_request" ELSE "main"
    /\ UNCHANGED <<script, kwargsToken, respToken, npages, catVars, costVars, svcVars, runVars, cmpVars>>
----------------------------------------------------------------------------
(* account_service_costs.py: main *)

\* --min-cost (default 1.0, one dollar) and --top-services (default 0 = all)
MinCosts == {0, 1000}
TopServices == {0, 1}

\* accounts = [(aid, total) for ... if total >= args.min_cost]; accounts.sort(...)
MainAccounts(min_cost) ==
    SortDesc(SelectSeq(account_totals, LAMBDA item : item[2] >= min_cost))

\* sorted_services = sorted(service_totals.items(), ...)[:args.top_services]
\* service_names = [s[0] for s in sorted_services]
ServiceNames(top_services) ==
    LET sorted_services == SortDesc(service_totals)
        n == IF top_services > 0 /\ top_services < Len(sorted_services)
             THEN top_services
             ELSE Len(sorted_services)
    IN [i \in 1..n |-> sorted_services[i][1]]

\* costs[account_id].get(svc, 0)
ServiceCost(account_id, svc) == Get(Get(costs, account_id, EmptyDict), svc, 0)

\* One line of the terminal table; truncate() of the name is left out, every
\* name of the model fits its column
TableRow(account_id, total, service_names) ==
    [name  |-> LET label == Get(account_names, account_id, None)
               IN IF Truthy(label) THEN label ELSE "(no name)",
     id    |-> account_id,
     total |-> FormatDollars(total),
     cells |-> [i \in 1..Len(service_names) |->
                  LET svc_cost == ServiceCost(account_id, service_names[i])
                  IN IF svc_cost >= 1000
                     THEN [dollars |-> FormatDollars(svc_cost)]
                     ELSE [dash |-> TRUE]]]

\* Faulty variant: the Total is summed from the columns that are shown
CsvRowSumOfColumns(account_id, total, service_names) ==
    [name  |-> LET label == Get(account_names, account_id, None)
               IN IF Truthy(label) THEN label ELSE "",
     id    |-> account_id,
     total |-> Round2(SumSeq([i \in 1..Len(service_names) |->
                                ServiceCost(account_id, service_names[i])])),
     costs |-> [i \in 1..Len(service_names) |->
                  Round2(ServiceCost(account_id, service_names[i]))]]

\* row = [name, account_id, round(total, 2)] + [round(costs[...].get(svc, 0), 2) ...]
CsvRow(account_id, total, service_names) ==
    [name  |-> LET label == Get(account_names, account_id, None)
               IN IF Truthy(label) THEN label ELSE "",
     id    |-> account_id,
     total |-> Round2(total),
     costs |-> [i \in 1..Len(service_names) |->
                  Round2(ServiceCost(account_id, service_names[i]))]]

\* Faulty variant: the grand total is taken over all accounts
GrandTotalUnfiltered(listed) == SumValues(account_totals)

\* grand_total = 0; for account_id, total in accounts: grand_total += total
GrandTotal(listed) == SumValues(listed)

\* svc_total = service_totals.get(svc, 0)
ServiceTotal(svc) == GetItem(service_totals, svc, 0)

\* Everything main prints and writes for the parsed arguments
MainReport(args) ==
    LET listed == MainAccounts(args.min_cost)
        service_names == ServiceNames(args.top_services)
        grand_total == GrandTotal(listed)
    IN IF listed = <<>>
       THEN [written |-> FALSE, args |-> args]
       ELSE [written |-> TRUE,
             args |-> args,
             service_names |-> service_names,
             table |-> [i \in 1..Len(listed) |->
                          TableRow(listed[i][1], listed[i][2], service_names)],
             footer |-> [total |-> FormatDollars(grand_total),
                         cells |-> [i \in 1..Len(service_names) |->
                                      FormatDollars(ServiceTotal(service_names[i]))]],
             csv |-> [i \in 1..Len(listed) |->
                        CsvRow(listed[i][1], listed[i][2], service_names)],
             csv_total |-> [total |-> Round2(grand_total),
                            costs |-> [i \in 1..Len(service_names) |->
                                         Round2(ServiceTotal(service_names[i]))]]]

\* main(), from the return of get_account_service_costs to the end
Main ==
    /\ pc = "main"
    /\ \E min_cost \in MinCosts, top_services \in TopServices :
        report' = MainReport([min_cost |-> min_cost, top_services |-> top_services])
    /\ pc' = "done"
    /\ UNCHANGED <<script, pageVars, catVars, groups, costs, account_totals, service_totals,
                   svcVars, runVars, cmpVars>>

\* A catalog entry that carries the identifier and label of a recorded pair
EntryOf(pair) ==
    IF pair[2] = None
    THEN [Value |-> pair[1]]
    ELSE [Value |-> pair[1], Attributes |-> [description |-> pair[2]]]

\* Account catalogs a one-page fetch returns
CatalogHistories ==
    { <<>>,
      << <<"111", "Prod">> >>,
      << <<"111", "Prod">>, <<"222", None>> >> }

RECURSIVE NamesOf(_, _)
NamesOf(history, names) ==
    IF history = <<>> THEN names
    ELSE NamesOf(Tail(history), Put(names, Head(history)[1], Head(history)[2]))

\* get_account_service_costs after its account-name loop
InitCosts ==
    /\ script = DictScript
    /\ pc = "cost_init"
    /\ token = None
    /\ kwargsToken = None
    /\ respToken = None
    /\ npages = 1
    /\ \E history \in CatalogHistories :
        /\ seen = history
        /\ nseen = Len(history)
        /\ v = IF history = <<>> THEN EmptyDict ELSE EntryOf(history[Len(history)])
        /\ account_names = NamesOf(history, EmptyDict)
    /\ accounts = <<>>
    /\ dedup = <<>>
    /\ groups = EmptyBag
    /\ costs = EmptyDict
    /\ account_totals = <<>>
    /\ service_totals = <<>>
    /\ report = NoReport
    /\ kwargsFilter = None
    /\ totals = <<>>
    /\ IdleRun

NextAccountServiceCosts ==
    \/ StartCostLoop
    \/ GetCostAndUsage
    \/ CostGroup
    \/ NextCostPageOrReturn
    \/ Main

SpecCosts == InitCosts /\ [][NextAccountServiceCosts]_vars

----------------------------------------------------------------------------
(* aws_cost_compare.py: get_service_costs *)

CompareScript == "aws_cost_compare"

\* One element of Groups of a query grouped by SERVICE
ServiceGroups == {[Keys |-> <<s>>, Amount |-> m] : s \in Services, m \in Amounts}

\* kwargs = {...}; if account_id: kwargs["Filter"] = ...
\* response = ce.get_cost_and_usage(**kwargs); totals = defaultdict(float)
GetServiceCosts ==
    /\ pc = "svc_request"
    /\ kwargsToken' = None
    /\ \E next \in UpstreamCursors(1) : respToken' = next
    /\ npages' = npages + 1
    /\ totals' = <<>>
    /\ pc' = "svc_groups"
    /\ UNCHANGED <<script, token, catVars, costVars, kwargsFilter, runVars, cmpVars>>

\* totals[service] += amount, for one group of one period of the response
ServiceGroup ==
    /\ pc = "svc_groups"
    /\ BagCardinality(groups) < MaxGroups
    /\ \E group \in ServiceGroups :
        /\ groups' = groups (+) SetToBag({group})
        /\ totals' = AddItem(totals, group.Keys[1], group.Amount)
    /\ UNCHANGED <<script, pc, pageVars, catVars, costs, account_totals, service_totals,
                   report, kwargsFilter, runVars, cmpVars>>

\* return dict(totals)
ReturnServiceCosts ==
    /\ pc = "svc_groups"
    /\ pc' = "done"
    /\ UNCHANGED <<script, pageVars, catVars, costVars, svcVars, runVars, cmpVars>>

InitServiceCosts ==
    /\ script = CompareScript
    /\ pc = "svc_request"
    /\ token = None
    /\ kwargsToken = None
    /\ respToken = None
    /\ npages = 0
    /\ v = EmptyDict
    /\ nseen = 0
    /\ seen = <<>>
    /\ accounts = <<>>
    /\ dedup = <<>>
    /\ account_names = EmptyDict
    /\ groups = EmptyBag
    /\ costs = EmptyDict
    /\ account_totals = <<>>
    /\ service_totals = <<>>
    /\ report = NoReport
    /\ kwargsFilter \in {None} \cup AccountIds
    /\ totals = <<>>
    /\ IdleRun

NextServiceCosts ==
    \/ GetServiceCosts
    \/ ServiceGroup
    \/ ReturnServiceCosts

SpecServiceCosts == InitServiceCosts /\ [][NextServiceCosts]_vars

----------------------------------------------------------------------------
(* Claims about the cost fetches *)

\* Sum of the strictly positive amounts the upstream reported for a key tuple
RECURSIVE PositiveSumOf(_, _)
PositiveSumOf(delivered, keys) ==
    IF delivered = {} THEN 0
    ELSE LET g == CHOOSE x \in delivered : TRUE
         IN (IF g.Keys = keys /\ g.Amount > 0 THEN g.Amount * CopiesIn(g, groups) ELSE 0)
            + PositiveSumOf(delivered \ {g}, keys)

PositiveSum(keys) == PositiveSumOf(BagToSet(groups), keys)

Stored(a, s) == a \in DOMAIN costs /\ s \in DOMAIN costs[a]

\* C1: in get_account_service_costs the amount stored for an (account, service)
\* pair is the sum of the strictly positive amounts reported for it, and a
\* pair without a positive amount has no stored entry.
C1_PositiveSumStored ==
    script = DictScript =>
        \A a \in AccountIds, s \in Services :
            IF PositiveSum(<<a, s>>) > 0
            THEN Stored(a, s) /\ costs[a][s] = PositiveSum(<<a, s>>)
            ELSE ~Stored(a, s)

\* One pair got 504, -1000 and 504 and stores 1008; another got only a refund
C1_Witness ==
    /\ pc = "main"
    /\ \E a \in AccountIds, s \in Services :
        /\ CopiesIn([Keys |-> <<a, s>>, Amount |-> 504], groups) = 2
        /\ CopiesIn([Keys |-> <<a, s>>, Amount |-> -1000], groups) = 1
        /\ Stored(a, s)
        /\ costs[a][s] = 1008

\* C2: the totals get_service_costs returns are, for every service, the sum of
\* the strictly positive amounts reported for it.
C2_ServiceTotalsPositiveOnly ==
    (script = CompareScript /\ pc = "done") =>
        \A s \in Keys(totals) : GetItem(totals, s, 0) = PositiveSum(<<s>>)

\* Sum of f over a set of keys
RECURSIVE SumOverKeys(_, _)
SumOverKeys(f, keys) ==
    IF keys = {} THEN 0
    ELSE LET k == CHOOSE x \in keys : TRUE
         IN f[k] + SumOverKeys(f, keys \ {k})

\* Sum of the leaf amounts of one account, of one service, and of all
LeafSumOfAccount(a) == SumOverKeys(costs[a], DOMAIN costs[a])
LeafSumOfService(s) ==
    LET holders == {a \in DOMAIN costs : s \in DOMAIN costs[a]}
    IN SumOverKeys([a \in holders |-> costs[a][s]], holders)
LeafSum == SumOverKeys([a \in DOMAIN costs |-> LeafSumOfAccount(a)], DOMAIN costs)

\* C3: after every processed group the account totals, the service totals and
\* the leaf amounts have the same sum, every account total is the sum of the
\* account's leaves and every service total the sum of the service's leaves.
C3_TotalsAgree ==
    script = DictScript =>
        /\ SumValues(account_totals) = LeafSum
        /\ SumValues(service_totals) = LeafSum
        /\ Keys(account_totals) = DOMAIN costs
        /\ \A i \in 1..Len(account_totals) :
              account_totals[i][2] = LeafSumOfAccount(account_totals[i][1])
        /\ Keys(service_totals) = UNION {DOMAIN costs[a] : a \in DOMAIN costs}
        /\ \A i \in 1..Len(service_totals) :
              service_totals[i][2] = LeafSumOfService(service_totals[i][1])

\* The pages [(111, EC2, 504)], [(222, S3, 504)] and a refund
C3_Witness ==
    /\ pc = "main"
    /\ npages = 2
    /\ account_totals = << <<"111", 504>>, <<"222", 504>> >>
    /\ service_totals = << <<"EC2", 504>>, <<"S3", 504>> >>
    /\ LeafSum = 1008
    /\ BagCardinality(groups) = 3

\* C5: a cost fetch that has returned has followed every continuation cursor:
\* the last response it received carried none.
C5_CostPaginationExhausted ==
    pc \in {"main", "done"} => ~(respToken # None /\ respToken # "")

----------------------------------------------------------------------------
(* Claims about the report of account_service_costs.main *)

Rendered == script = DictScript /\ pc = "done"

\* The accounts of the catalog and the accounts of the delivered cost groups
CatalogAccounts == DOMAIN account_names
CostGroupAccounts == {g.Keys[1] : g \in BagToSet(groups)}

ListedIds(r) == IF r.written THEN {r.csv[i].id : i \in 1..Len(r.csv)} ELSE {}

\* C7: without an effective minimum-total filter, the report lists every
\* account of the catalog and every account of the cost groups.
C7_EveryAccountListed ==
    (Rendered /\ report.args.min_cost <= 0) =>
        \A a \in CatalogAccounts \cup CostGroupAccounts : a \in ListedIds(report)

\* The spend of an account over every service it has costs for
FullSpend(a) == IF a \in DOMAIN costs THEN LeafSumOfAccount(a) ELSE 0

\* The report of the same run without --top-services
Untruncated == MainReport([report.args EXCEPT !.top_services = 0])

\* The report of the same run with --min-cost 0
Unfiltered == MainReport([report.args EXCEPT !.min_cost = 0])

\* C8: truncating to the top N services leaves the listed accounts, their
\* order and their printed and exported Total as they are without truncation,
\* and the Total is the account's spend over all services.
C8_TruncationKeepsTotals ==
    (Rendered /\ report.written) =>
        /\ Untruncated.written
        /\ Len(report.csv) = Len(Untruncated.csv)
        /\ Len(report.table) = Len(Untruncated.table)
        /\ \A i \in 1..Len(report.csv) :
            /\ report.csv[i].id = Untruncated.csv[i].id
            /\ report.csv[i].name = Untruncated.csv[i].name
            /\ report.csv[i].total = Untruncated.csv[i].total
            /\ report.csv[i].total = Round2(FullSpend(report.csv[i].id))
        /\ \A i \in 1..Len(report.table) :
            /\ report.table[i].id = Untruncated.table[i].id
            /\ report.table[i].name = Untruncated.table[i].name
            /\ report.table[i].total = Untruncated.table[i].total
            /\ report.table[i].total = FormatDollars(FullSpend(report.table[i].id))

\* A report truncated to one column whose first account also spent on the
\* service that is not shown
C8_Witness ==
    /\ Rendered
    /\ report.written
    /\ report.args.top_services = 1
    /\ Len(report.service_names) = 1
    /\ Len(service_totals) = 2
    /\ \E s \in Services :
        /\ s # report.service_names[1]
        /\ ServiceCost(report.csv[1].id, s) > 0
    /\ Len(report.csv) = 2

\* The account totals the minimum-total filter keeps
KeptTotals(min_cost) ==
    {i \in 1..Len(account_totals) : account_totals[i][2] >= min_cost}

KeptSum(min_cost) ==
    SumOverKeys([i \in KeptTotals(min_cost) |-> account_totals[i][2]], KeptTotals(min_cost))

\* C9 as stated: for any threshold the TOTAL value and every service total of
\* the footer and of the CSV TOTAL row are those of threshold 0.
C9_FilterKeepsTotalRow ==
    (Rendered /\ report.written) =>
        /\ report.footer = Unfiltered.footer
        /\ report.csv_total = Unfiltered.csv_total

\* C9 as amended: the minimum-total filter leaves the service columns and
\* every service total of the footer and of the CSV TOTAL row as they are with
\* threshold 0; the TOTAL value is the sum of the totals of the accounts the
\* filter keeps.
C9_FilterKeepsServiceTotals ==
    (Rendered /\ report.written) =>
        /\ Unfiltered.written
        /\ report.service_names = Unfiltered.service_names
        /\ report.footer.cells = Unfiltered.footer.cells
        /\ report.csv_total.costs = Unfiltered.csv_total.costs
        /\ \A i \in 1..Len(report.service_names) :
              report.csv_total.costs[i] =
                  Round2(LeafSumOfService(report.service_names[i]))
        /\ report.csv_total.total = Round2(KeptSum(report.args.min_cost))
        /\ report.footer.total = FormatDollars(KeptSum(report.args.min_cost))

\* A report from which the filter removed an account with costs
C9_Witness ==
    /\ Rendered
    /\ report.written
    /\ report.args.min_cost = 1000
    /\ Len(report.csv) = 1
    /\ Len(account_totals) = 2

\* Sum of column j of the exported account rows
ColumnSum(r, j) == SumSeq([i \in 1..Len(r.csv) |-> r.csv[i].costs[j]])

Distance(x, y) == IF x >= y THEN x - y ELSE y - x

\* C10: the TOTAL row sums the listed rows: its Total is the sum of the rows'
\* Totals, each of its service totals is the sum of that column over the
\* listed rows, and its Total is the sum of its service totals.  Every exported
\* value is rounded to the cent on its own, so "equals" is read as "differs by
\* at most one cent per summand"; the last part is read for the reports that
\* show every service, a truncated one having no column for part of the Total.
C10_TotalRowSumsListedRows ==
    (Rendered /\ report.written) =>
        /\ Distance(report.csv_total.total,
                    SumSeq([i \in 1..Len(report.csv) |-> report.csv[i].total]))
              <= Len(report.csv)
        /\ \A j \in 1..Len(report.service_names) :
              Distance(report.csv_total.costs[j], ColumnSum(report, j))
                  <= Len(report.csv)
        /\ Len(report.service_names) = Len(service_totals) =>
              Distance(report.csv_total.total, SumSeq(report.csv_total.costs))
                  <= Len(report.csv_total.costs)

-----------------------------------------------------------------------------
(* aws_cost_compare.py: compare_costs, format_pct, print_comparison_table.
   Costs are integers in 1/1000 dollar, so one cent is 10.  A percentage is
   kept exact: [kind |-> "float", num, den] stands for num / den, and
   float('inf') is [kind |-> "inf"].  A division by zero yields the value
   ZeroDivisionError, which ends the run that meets it. *)

Abs(x) == IF x >= 0 THEN x ELSE -x

Inf == [kind |-> "inf"]
NegInf == [kind |-> "-inf"]
ZeroDivisionError == [kind |-> "ZeroDivisionError"]
Float(num, den) == [kind |-> "float", num |-> num, den |-> den]

\* ((a) / b) * 100
PercentOf(a, b) == IF b = 0 THEN ZeroDivisionError ELSE Float(a * 100, b)

\* pct < 0 and abs(pct) > 1000 of a finite pct
IsNegative(pct) == (pct.num < 0 /\ pct.den > 0) \/ (pct.num > 0 /\ pct.den < 0)
AbsAbove(pct, bound) == Abs(pct.num) > bound * Abs(pct.den)

\* f"{pct:+.1f}%": sign, then tenths of a percent rounded half to even
Signed1f(pct) ==
    [text |-> "%",
     sign |-> IF IsNegative(pct) THEN "-" ELSE "+",
     tenths |-> RoundHalfEven(Abs(pct.num) * 10, Abs(pct.den))]

\* Faulty variant of the test `cost1 > 0`: a zero prior amount is divided by
HasPriorOrZero(cost1) == cost1 >= 0

\* if cost1 > 0
HasPrior(cost1) == cost1 > 0

\* The body of the loop of compare_costs for one service
Comparison(service, p1, p2) ==
    LET cost1 == Get(p1, service, 0)
        cost2 == Get(p2, service, 0)
    IN [service |-> service,
        period1 |-> cost1,
        period2 |-> cost2,
        diff |-> cost2 - cost1,
        pct_change |-> IF HasPrior(cost1) THEN PercentOf(cost2 - cost1, cost1)
                       ELSE IF cost2 > 0 THEN Inf
                       ELSE Float(0, 1)]

\* Faulty variant of the sort key: the signed difference
SortKeySigned(item) == item.diff

\* key=lambda x: abs(x["diff"])
SortKey(item) == Abs(item.diff)

\* comparisons.sort(key=..., reverse=True): descending by key, items of equal
\* key keep their order
RECURSIVE SortComparisonsFrom(_, _)
SortComparisonsFrom(list, out) ==
    IF list = <<>> THEN out
    ELSE LET item == Head(list)
             n == Cardinality({i \in 1..Len(out) : SortKey(out[i]) >= SortKey(item)})
         IN SortComparisonsFrom(Tail(list),
                                SubSeq(out, 1, n) \o <<item>> \o SubSeq(out, n + 1, Len(out)))

\* Faulty variant of all_services: the keys of the first period only
AllServicesOfPeriod1(p1, p2) == DOMAIN p1

\* set(period1_costs.keys()) | set(period2_costs.keys())
AllServices(p1, p2) == DOMAIN p1 \cup DOMAIN p2

\* The orders in which a `for` may iterate over a set
Orders(S) ==
    {order \in [1..Cardinality(S) -> S] :
        \A i, j \in 1..Cardinality(S) : order[i] = order[j] => i = j}

\* compare_costs, given the order in which the loop visits all_services
CompareCosts(order, p1, p2) ==
    SortComparisonsFrom([i \in 1..Len(order) |-> Comparison(order[i], p1, p2)], <<>>)

\* Whether compare_costs raises instead of returning this list
Raises(list) == \E i \in 1..Len(list) : list[i].pct_change = ZeroDivisionError

\* format_pct and format_pct_csv (the two have the same body)
format_pct(pct) ==
    IF pct.kind = "inf" THEN [text |-> "NEW"]
    ELSE IF pct.kind = "-inf" \/ (IsNegative(pct) /\ AbsAbove(pct, 1000))
         THEN [text |-> "REMOVED"]
    ELSE Signed1f(pct)

format_pct_csv(pct) == format_pct(pct)

\* sum(item[field] for item in comparisons)
RECURSIVE SumPeriod1(_)
SumPeriod1(list) == IF list = <<>> THEN 0 ELSE Head(list).period1 + SumPeriod1(Tail(list))

RECURSIVE SumPeriod2(_)
SumPeriod2(list) == IF list = <<>> THEN 0 ELSE Head(list).period2 + SumPeriod2(Tail(list))

\* ((total2 - total1) / total1 * 100) if total1 > 0 else 0
TotalPct(total1, total2) ==
    IF total1 > 0 THEN PercentOf(total2 - total1, total1) ELSE Float(0, 1)

\* if item["period1"] < 0.01 and item["period2"] < 0.01: continue
Skipped(item) == item.period1 < 10 /\ item.period2 < 10

\* One line of the printed table: amounts with two decimals
TableLine(item) ==
    [service |-> item.service,
     period1 |-> Round2(item.period1),
     period2 |-> Round2(item.period2),
     diff |-> Round2(item.diff),
     change |-> format_pct(item.pct_change)]

\* print_comparison_table
ComparisonTable(list, title) ==
    LET total1 == SumPeriod1(list)
        total2 == SumPeriod2(list)
        Shown(item) == ~Skipped(item)
        shown == SelectSeq(list, Shown)
    IN [title |-> title,
        lines |-> [i \in 1..Len(shown) |-> TableLine(shown[i])],
        total |-> [service |-> "TOTAL",
                   period1 |-> Round2(total1),
                   period2 |-> Round2(total2),
                   diff |-> Round2(total2 - total1),
                   change |-> format_pct(TotalPct(total1, total2))]]

\* Faulty variant of the CSV test: a row is exported when either amount is positive
ExportedIfPositive(item) == item.period1 > 0 \/ item.period2 > 0

\* if item["period1"] >= 0.01 or item["period2"] >= 0.01
Exported(item) == item.period1 >= 10 \/ item.period2 >= 10

\* One service row of the CSV
CsvServiceRow(item, account_id, account_name) ==
    [account_id |-> account_id,
     account_name |-> account_name,
     service |-> item.service,
     period1_cost |-> Round2(item.period1),
     period2_cost |-> Round2(item.period2),
     difference |-> Round2(item.diff),
     pct_change |-> format_pct_csv(item.pct_change)]

\* The TOTAL row of a section of the CSV
CsvTotalRow(list, account_id, account_name) ==
    LET total1 == SumPeriod1(list)
        total2 == SumPeriod2(list)
    IN [account_id |-> account_id,
        account_name |-> account_name,
        service |-> "TOTAL",
        period1_cost |-> Round2(total1),
        period2_cost |-> Round2(total2),
        difference |-> Round2(total2 - total1),
        pct_change |-> format_pct_csv(TotalPct(total1, total2))]

\* Faulty variant of a section: the TOTAL row comes before the service rows
CsvSectionTotalFirst(list, account_id, account_name) ==
    LET exported == SelectSeq(list, Exported)
    IN <<CsvTotalRow(list, account_id, account_name)>>
       \o [i \in 1..Len(exported) |-> CsvServiceRow(exported[i], account_id, account_name)]

\* The rows one section appends to csv_rows: its exported services, then TOTAL
CsvSection(list, account_id, account_name) ==
    LET exported == SelectSeq(list, Exported)
    IN [i \in 1..Len(exported) |-> CsvServiceRow(exported[i], account_id, account_name)]
       \o <<CsvTotalRow(list, account_id, account_name)>>

-----------------------------------------------------------------------------
(* aws_cost_compare.py: parse_date_range.  A command-line period is kept as
   the list of its pieces around " to " (what split returns); a piece is the
   separator it uses and the numbers between the separators. *)

ValueError == [error |-> "ValueError"]

DateText(d, m, y) == [sep |-> "-", fields |-> <<d, m, y>>]

\* Days of a month of the years %y can name
DaysIn(month, year) ==
    IF month \in {4, 6, 9, 11} THEN 30
    ELSE IF month # 2 THEN 31
    ELSE IF year % 4 = 0 THEN 29 ELSE 28

\* Faulty variant of strptime: any three numbers are taken as a date
strptimeUnchecked(text) ==
    IF Len(text.fields) # 3 THEN ValueError
    ELSE [year |-> 2000 + text.fields[3], month |-> text.fields[2], day |-> text.fields[1]]

\* datetime.strptime(text, "%d-%m-%y")
strptime(text) ==
    IF text.sep # "-" \/ Len(text.fields) # 3 THEN ValueError
    ELSE LET day == text.fields[1]
             month == text.fields[2]
             yy == text.fields[3]
             year == IF yy < 69 THEN 2000 + yy ELSE 1900 + yy
         IN IF yy \in 0..99 /\ month \in 1..12 /\ day \in 1..DaysIn(month, year)
            THEN [year |-> year, month |-> month, day |-> day]
            ELSE ValueError

\* parse_date_range
parse_date_range(parts) ==
    IF Len(parts) # 2 THEN ValueError
    ELSE LET start == strptime(parts[1])
             end == strptime(parts[2])
         IN IF start = ValueError \/ end = ValueError THEN ValueError
            ELSE [start |-> start, end |-> end]

\* Period arguments: two well-formed ones, one without " to ", one with it
\* twice, one naming 31 February, one with an ISO date
PeriodArguments ==
    {<<DateText(1, 1, 25), DateText(31, 1, 25)>>,
     <<DateText(1, 11, 25), DateText(30, 11, 25)>>,
     <<DateText(1, 1, 25)>>,
     <<DateText(1, 1, 25), DateText(31, 1, 25), DateText(28, 2, 25)>>,
     <<DateText(1, 2, 25), DateText(31, 2, 25)>>,
     <<[sep |-> "-", fields |-> <<2025, 1, 1>>], DateText(31, 1, 25)>>,
     <<[sep |-> "/", fields |-> <<1, 1, 25>>], DateText(31, 1, 25)>>}

CommandLines == [period1 : PeriodArguments, period2 : PeriodArguments]

-----------------------------------------------------------------------------
(* aws_cost_compare.py: main *)

\* One printed line about a unit of work, one recorded call, one caught exception
LogLine(level, text, unit) == [level |-> level, text |-> text, unit |-> unit]
Call(api, account, arg) == [api |-> api, account |-> account, arg |-> arg]
Caught(place, unit) == [place |-> place, unit |-> unit]

Overall == <<"ALL", "ALL ACCOUNTS">>

\* Lines 191-197: both periods are parsed; a ValueError is printed and main
\* returns 1
ParseDateRanges ==
    /\ script = CompareScript
    /\ pc = "parse"
    /\ IF parse_date_range(argv.period1) = ValueError
          \/ parse_date_range(argv.period2) = ValueError
       THEN /\ caught' = Append(caught, Caught("parse_date_range", ""))
            /\ log' = Append(log, LogLine("ERROR", "ValueError", ""))
            /\ exit_status' = "1"
            /\ pc' = "done"
       ELSE /\ pc' = "session"
            /\ UNCHANGED <<caught, log, exit_status>>
    /\ UNCHANGED <<script, fetchVars, argv, calls, todo, regions, cmpVars>>

\* Lines 199-210: the session is created
CreateSession ==
    /\ script = CompareScript
    /\ pc = "session"
    /\ calls' = Append(calls, Call("Session", "", ""))
    /\ pc' = "discover"
    /\ UNCHANGED <<script, fetchVars, argv, exit_status, log, caught, todo, regions, cmpVars>>

\* Lines 212-219: get_linked_accounts returns the de-duplicated catalog, or
\* raises, which nothing catches
DiscoverAccounts ==
    /\ script = CompareScript
    /\ pc = "discover"
    /\ calls' = Append(calls, Call("get_dimension_values", "", ""))
    /\ \/ /\ \E found \in CatalogHistories : todo' = found
          /\ pc' = "overall_fetch"
          /\ UNCHANGED exit_status
       \/ /\ exit_status' = "traceback"
          /\ pc' = "done"
          /\ UNCHANGED todo
    /\ UNCHANGED <<script, fetchVars, argv, log, caught, regions, cmpVars>>

\* What get_service_costs returns to main: a total per service
FetchedCosts ==
    {EmptyDict, [s \in {"EC2"} |-> 4], [s \in {"EC2"} |-> 504],
     [s \in {"EC2", "S3"} |-> IF s = "EC2" THEN 1500 ELSE 4]}

\* The two get_service_costs calls of one section, the second made only when
\* the first returned
BothCalls(account) ==
    <<Call("get_cost_and_usage", account, argv.period1),
      Call("get_cost_and_usage", account, argv.period2)>>

\* Lines 222-224: the overall costs of both periods; an exception here is
\* caught by nothing
FetchOverall ==
    /\ script = CompareScript
    /\ pc = "overall_fetch"
    /\ \/ /\ \E p1, p2 \in FetchedCosts :
                /\ period1_costs' = p1
                /\ period2_costs' = p2
          /\ calls' = calls \o BothCalls("")
          /\ section' = Overall
          /\ pc' = "overall"
          /\ UNCHANGED exit_status
       \/ /\ \E made \in 1..2 : calls' = calls \o SubSeq(BothCalls(""), 1, made)
          /\ exit_status' = "traceback"
          /\ pc' = "done"
          /\ UNCHANGED <<period1_costs, period2_costs, section>>
    /\ UNCHANGED <<script, fetchVars, argv, log, caught, todo, regions,
                   comparisons, printed, csv_rows, csv_written>>

\* Lines 225-255: the overall comparison is computed, printed and exported
OverallComparison ==
    /\ script = CompareScript
    /\ pc = "overall"
    /\ \E order \in Orders(AllServices(period1_costs, period2_costs)) :
          LET list == CompareCosts(order, period1_costs, period2_costs)
          IN IF Raises(list)
             THEN /\ exit_status' = "traceback"
                  /\ pc' = "done"
                  /\ UNCHANGED <<comparisons, printed, csv_rows>>
             ELSE /\ comparisons' = list
                  /\ printed' = Append(printed,
                                       ComparisonTable(list, <<"ALL", "OVERALL - ALL ACCOUNTS">>))
                  /\ csv_rows' = csv_rows \o CsvSection(list, "ALL", "ALL ACCOUNTS")
                  /\ pc' = "account_fetch"
                  /\ UNCHANGED exit_status
    /\ UNCHANGED <<script, fetchVars, argv, log, calls, caught, todo, regions,
                   period1_costs, period2_costs, section, csv_written>>

\* account_name or account_id
DisplayName(account) == IF Truthy(account[2]) THEN account[2] ELSE account[1]

\* Lines 258-272: the next account's costs are fetched; an exception is caught
\* and printed with the account id, an account without costs is skipped
FetchAccount ==
    /\ script = CompareScript
    /\ pc = "account_fetch"
    /\ todo # <<>>
    /\ LET account == Head(todo)
           account_id == account[1]
           fetching == LogLine("INFO", "Fetching costs", account_id)
       IN /\ todo' = Tail(todo)
          /\ \/ \E p1, p2 \in FetchedCosts :
                  /\ calls' = calls \o BothCalls(account_id)
                  /\ UNCHANGED caught
                  /\ IF p1 = EmptyDict /\ p2 = EmptyDict
                     THEN /\ log' = log \o <<fetching, LogLine("INFO", "No costs found", account_id)>>
                          /\ UNCHANGED <<pc, period1_costs, period2_costs, section>>
                     ELSE /\ log' = Append(log, fetching)
                          /\ period1_costs' = p1
                          /\ period2_costs' = p2
                          /\ section' = account
                          /\ pc' = "account"
             \/ /\ \E made \in 1..2 : calls' = calls \o SubSeq(BothCalls(account_id), 1, made)
                /\ caught' = Append(caught, Caught("get_service_costs", account_id))
                /\ log' = log \o <<fetching, LogLine("ERROR", "Failed to fetch costs", account_id)>>
                /\ UNCHANGED <<pc, period1_costs, period2_costs, section>>
    /\ UNCHANGED <<script, fetchVars, argv, exit_status, regions,
                   comparisons, printed, csv_rows, csv_written>>

\* Lines 274-307: the account's comparison, printed and exported when either
\* total reaches one cent
AccountComparison ==
    /\ script = CompareScript
    /\ pc = "account"
    /\ \E order \in Orders(AllServices(period1_costs, period2_costs)) :
          LET list == CompareCosts(order, period1_costs, period2_costs)
              account_id == section[1]
              account_name == IF Truthy(section[2]) THEN section[2] ELSE ""
          IN IF Raises(list)
             THEN /\ exit_status' = "traceback"
                  /\ pc' = "done"
                  /\ UNCHANGED <<comparisons, printed, csv_rows>>
             ELSE /\ comparisons' = list
                  /\ IF SumPeriod1(list) >= 10 \/ SumPeriod2(list) >= 10
                     THEN /\ printed' = Append(printed,
                                               ComparisonTable(list, <<account_id, DisplayName(section)>>))
                          /\ csv_rows' = csv_rows \o CsvSection(list, account_id, account_name)
                     ELSE UNCHANGED <<printed, csv_rows>>
                  /\ pc' = "account_fetch"
                  /\ UNCHANGED exit_status
    /\ UNCHANGED <<script, fetchVars, argv, log, calls, caught, todo, regions,
                   period1_costs, period2_costs, section, csv_written>>

\* Lines 309-324: after the last account the CSV is written and main returns 0
WriteCsv ==
    /\ script = CompareScript
    /\ pc = "account_fetch"
    /\ todo = <<>>
    /\ csv_written' = TRUE
    /\ exit_status' = "0"
    /\ pc' = "done"
    /\ UNCHANGED <<script, fetchVars, argv, log, calls, caught, todo, regions,
                   period1_costs, period2_costs, comparisons, section, printed, csv_rows>>

\* The variables of the fetch loops, while a main runs that draws their results
IdleFetch ==
    /\ token = None
    /\ kwargsToken = None
    /\ respToken = None
    /\ npages = 0
    /\ v = EmptyDict
    /\ nseen = 0
    /\ seen = <<>>
    /\ accounts = <<>>
    /\ dedup = <<>>
    /\ account_names = EmptyDict
    /\ groups = EmptyBag
    /\ costs = EmptyDict
    /\ account_totals = <<>>
    /\ service_totals = <<>>
    /\ report = NoReport
    /\ kwargsFilter = None
    /\ totals = <<>>

\* main of aws_cost_compare.py, from its command line
InitCompareMain ==
    /\ script = CompareScript
    /\ pc = "parse"
    /\ IdleFetch
    /\ argv \in CommandLines
    /\ exit_status = None
    /\ log = <<>>
    /\ calls = <<>>
    /\ caught = <<>>
    /\ todo = <<>>
    /\ regions = <<>>
    /\ period1_costs = EmptyDict
    /\ period2_costs = EmptyDict
    /\ comparisons = <<>>
    /\ section = <<>>
    /\ printed = <<>>
    /\ csv_rows = <<>>
    /\ csv_written = FALSE

NextCompareMain ==
    \/ ParseDateRanges
    \/ CreateSession
    \/ DiscoverAccounts
    \/ FetchOverall
    \/ OverallComparison
    \/ FetchAccount
    \/ AccountComparison
    \/ WriteCsv

SpecCompareMain == InitCompareMain /\ [][NextCompareMain]_vars

-----------------------------------------------------------------------------
(* aws_cost_compare.py: one section of main over every pair of period costs.
   The run starts where main holds the two dicts of a section: those of the
   overall section of a payer without linked accounts, or those of its last
   linked account after an overall section without costs. *)

CompareAmounts == {-1000, 0, 4, 504, 1500}

\* Every dict from some services to an amount
CostDicts == UNION {[S -> CompareAmounts] : S \in SUBSET Services}

JanuaryAndNovember ==
    [period1 |-> <<DateText(1, 1, 25), DateText(31, 1, 25)>>,
     period2 |-> <<DateText(1, 11, 25), DateText(30, 11, 25)>>]

InitCompare ==
    /\ script = CompareScript
    /\ IdleFetch
    /\ argv = JanuaryAndNovember
    /\ exit_status = None
    /\ caught = <<>>
    /\ todo = <<>>
    /\ regions = <<>>
    /\ comparisons = <<>>
    /\ csv_written = FALSE
    /\ period1_costs \in CostDicts
    /\ period2_costs \in CostDicts
    /\ \/ /\ pc = "overall"
          /\ section = Overall
          /\ log = <<>>
          /\ calls = <<Call("Session", "", ""), Call("get_dimension_values", "", "")>>
                     \o BothCalls("")
          /\ printed = <<>>
          /\ csv_rows = <<>>
       \/ /\ pc = "account"
          /\ period1_costs # EmptyDict \/ period2_costs # EmptyDict
          /\ section \in {<<"111", "Prod">>, <<"222", None>>}
          /\ log = <<LogLine("INFO", "Fetching costs", section[1])>>
          /\ calls = <<Call("Session", "", ""), Call("get_dimension_values", "", "")>>
                     \o BothCalls("") \o BothCalls(section[1])
          /\ printed = <<ComparisonTable(<<>>, <<"ALL", "OVERALL - ALL ACCOUNTS">>)>>
          /\ csv_rows = CsvSection(<<>>, "ALL", "ALL ACCOUNTS")

NextCompare ==
    \/ OverallComparison
    \/ AccountComparison
    \/ WriteCsv

SpecCompare == InitCompare /\ [][NextCompare]_vars

-----------------------------------------------------------------------------
(* Claims about compare_costs *)

\* compare_costs has returned for the period costs the state holds
Compared ==
    /\ script = CompareScript
    /\ pc = "account_fetch" \/ (pc = "done" /\ exit_status = "0")

\* The services of a list of comparisons
ServicesOf(list) == {list[i].service : i \in 1..Len(list)}

\* C11: compare_costs returns exactly one row for every key of the union of
\* the two periods' keys and no other row; a key missing from a period counts
\* as 0 there; diff is period2 - period1, so that comparing the periods the
\* other way round gives every service the negated diff.
C11_OneRowPerKey ==
    Compared =>
        LET keys == DOMAIN period1_costs \cup DOMAIN period2_costs
        IN /\ ServicesOf(comparisons) = keys
           /\ Len(comparisons) = Cardinality(keys)
           /\ \A i \in 1..Len(comparisons) :
                LET item == comparisons[i]
                IN /\ item.period1 = (IF item.service \in DOMAIN period1_costs
                                      THEN period1_costs[item.service] ELSE 0)
                   /\ item.period2 = (IF item.service \in DOMAIN period2_costs
                                      THEN period2_costs[item.service] ELSE 0)
                   /\ item.diff = item.period2 - item.period1
           /\ \A order \in Orders(keys) :
                LET swapped == CompareCosts(order, period2_costs, period1_costs)
                IN /\ Len(swapped) = Len(comparisons)
                   /\ \A i, j \in 1..Len(comparisons) :
                        swapped[j].service = comparisons[i].service =>
                            swapped[j].diff = 0 - comparisons[i].diff

\* compare_costs has returned two rows, one for a service only the first period
\* has and one for a service only the second has, both with a cost
C11_Witness ==
    /\ Compared
    /\ Len(comparisons) = 2
    /\ \E s, t \in Services :
        /\ s \in DOMAIN period1_costs /\ s \notin DOMAIN period2_costs
        /\ t \in DOMAIN period2_costs /\ t \notin DOMAIN period1_costs
        /\ period1_costs[s] > 0 /\ period2_costs[t] > 0

\* A list of rows is in non-increasing order of the magnitude of field diff
ByMagnitude(diffs) ==
    \A i, j \in 1..Len(diffs) : i < j => Abs(diffs[i]) >= Abs(diffs[j])

\* C12: the rows compare_costs returns are in non-increasing order of |diff|,
\* and so are the service lines of every printed table and the service rows of
\* every section of the CSV.
C12_SortedByMagnitude ==
    Compared =>
        /\ ByMagnitude([i \in 1..Len(comparisons) |-> comparisons[i].diff])
        /\ \A t \in 1..Len(printed) :
             ByMagnitude([i \in 1..Len(printed[t].lines) |-> printed[t].lines[i].diff])
        /\ \A i, j \in 1..Len(csv_rows) :
             /\ i < j
             /\ csv_rows[i].account_id = csv_rows[j].account_id
             /\ csv_rows[i].service # "TOTAL"
             /\ csv_rows[j].service # "TOTAL"
             => Abs(csv_rows[i].difference) >= Abs(csv_rows[j].difference)

\* Two services were compared, printed and exported, the larger change being a
\* decrease
C12_Witness ==
    /\ Compared
    /\ Len(comparisons) = 2
    /\ comparisons[1].diff < 0
    /\ comparisons[2].diff > 0
    /\ Abs(comparisons[1].diff) > comparisons[2].diff
    /\ Len(printed[Len(printed)].lines) = 2
    /\ Len(csv_rows) >= 3

\* C13: no division by zero occurs, whatever the period amounts (zero and
\* negative prior amounts included): not in compare_costs, not in the total
\* percentages, so no run ends in a traceback; and a service with period1 = 0
\* and period2 > 0 gets the percent change +infinity, which format_pct and
\* format_pct_csv render as "NEW".
C13_NoDivisionByZero ==
    /\ exit_status # "traceback"
    /\ \A order \in Orders(AllServices(period1_costs, period2_costs)) :
         LET list == CompareCosts(order, period1_costs, period2_costs)
         IN /\ ~Raises(list)
            /\ TotalPct(SumPeriod1(list), SumPeriod2(list)) # ZeroDivisionError
    /\ Compared =>
         /\ \A i \in 1..Len(comparisons) :
              comparisons[i].period1 = 0 /\ comparisons[i].period2 > 0 =>
                  /\ comparisons[i].pct_change = Inf
                  /\ format_pct(comparisons[i].pct_change).text = "NEW"
                  /\ format_pct_csv(comparisons[i].pct_change).text = "NEW"
         /\ \A i \in 1..Len(comparisons), r \in 1..Len(csv_rows) :
              /\ comparisons[i].period1 = 0 /\ comparisons[i].period2 > 0
              /\ csv_rows[r].account_id = section[1]
              /\ csv_rows[r].service = comparisons[i].service
              => csv_rows[r].pct_change.text = "NEW"

\* A comparison was printed and exported with a new service (nothing before,
\* a cost now) next to a service whose prior amount is negative, the prior
\* total being negative too
C13_Witness ==
    /\ Compared
    /\ SumPeriod1(comparisons) < 0
    /\ \E i, j \in 1..Len(comparisons) :
        /\ comparisons[i].period1 = 0 /\ comparisons[i].period2 >= 10
        /\ comparisons[j].period1 < 0
    /\ \E t \in 1..Len(printed) : \E i \in 1..Len(printed[t].lines) :
        printed[t].lines[i].change.text = "NEW"
    /\ \E i \in 1..Len(csv_rows) : csv_rows[i].pct_change.text = "NEW"

\* C14: a service with period1 > 0 and period2 = 0 has its percent change
\* rendered by format_pct and by format_pct_csv as "REMOVED".
C14_RemovedMarker ==
    Compared =>
        \A i \in 1..Len(comparisons) :
            comparisons[i].period1 > 0 /\ comparisons[i].period2 = 0 =>
                /\ format_pct(comparisons[i].pct_change).text = "REMOVED"
                /\ format_pct_csv(comparisons[i].pct_change).text = "REMOVED"

\* The services of the rows of a list, in order
ServiceColumn(list) == [i \in 1..Len(list) |-> list[i].service]

\* The service rows the CSV has under an account id, in order
CsvServiceRowsOf(account_id) ==
    LET InSection(row) == row.account_id = account_id /\ row.service # "TOTAL"
    IN SelectSeq(csv_rows, InSection)

\* Both period amounts of a comparison are below one cent
BelowOneCent(item) == item.period1 < 10 /\ item.period2 < 10

\* The table of the section the state holds has been printed
SectionPrinted == printed # <<>> /\ printed[Len(printed)].title[1] = section[1]

\* C15: a comparison is left out of the printed table exactly when both its
\* period amounts are below one cent, and for every section whose table is
\* printed a service row is in the CSV exactly when it is in that table.
C15_SuppressionConsistent ==
    Compared =>
        /\ SectionPrinted =>
             LET Kept(item) == ~BelowOneCent(item)
             IN ServiceColumn(printed[Len(printed)].lines)
                    = ServiceColumn(SelectSeq(comparisons, Kept))
        /\ \A t \in 1..Len(printed) :
             ServiceColumn(CsvServiceRowsOf(printed[t].title[1]))
                 = ServiceColumn(printed[t].lines)

\* An account's table was printed and exported with one service shown and one
\* left out whose first-period amount is positive but below one cent
C15_Witness ==
    /\ Compared
    /\ SectionPrinted
    /\ section[1] \in AccountIds
    /\ Len(comparisons) = 2
    /\ Len(printed[Len(printed)].lines) = 1
    /\ Len(CsvServiceRowsOf(section[1])) = 1
    /\ \E i \in 1..2 : BelowOneCent(comparisons[i]) /\ comparisons[i].period1 > 0

-----------------------------------------------------------------------------
(* Claims about aws_cost_compare.main *)

\* The dd-mm-yy texts among the command lines that name a day of the calendar
CalendarDays ==
    {DateText(1, 1, 25), DateText(31, 1, 25), DateText(1, 11, 25), DateText(30, 11, 25),
     DateText(1, 2, 25), DateText(28, 2, 25)}

\* A period argument is a valid 'dd-mm-yy to dd-mm-yy' range
ValidRange(parts) == Len(parts) = 2 /\ parts[1] \in CalendarDays /\ parts[2] \in CalendarDays

\* C16: when a period argument of aws_cost_compare.main is not a valid range
\* (wrong number of " to " parts or an unparsable date), the run does nothing
\* but print an error and end with exit status 1: no session is created, no
\* upstream call is made and no CSV is written.
C16_InvalidPeriodAbortsEarly ==
    script = CompareScript /\ ~(ValidRange(argv.period1) /\ ValidRange(argv.period2)) =>
        /\ calls = <<>>
        /\ csv_written = FALSE
        /\ csv_rows = <<>>
        /\ pc \in {"parse", "done"}
        /\ pc = "done" =>
             /\ exit_status = "1"
             /\ \E i \in 1..Len(log) : log[i].level = "ERROR"

\* A run has ended with status 1 on a second period that names 31 February,
\* the first period being valid
C16_Witness ==
    /\ script = CompareScript
    /\ pc = "done"
    /\ exit_status = "1"
    /\ ValidRange(argv.period1)
    /\ Len(argv.period2) = 2
    /\ argv.period2[2] = DateText(31, 2, 25)
    /\ calls = <<>>

-----------------------------------------------------------------------------
(* aws_cost.py: main.  Command lines without --account-name and with at most
   one local profile are modelled. *)

CostScript == "aws_cost"

RoleNameLists == {<<"OrganizationAccountAccessRole">>, <<"OrganizationAccountAccessRole", "Audit">>}
ProfileLists == {<<>>, <<"dev">>}
CostCommandLines ==
    [role_names : RoleNameLists, profiles : ProfileLists, account_id : {None, "111"}]

\* What list_enabled_regions returns: the enabled region names, sorted
RegionLists == {<<>>, <<"us-east-1">>, <<"ap-south-1", "us-east-1">>}

\* What get_aws_service_totals_last_30_days returns: whole dollars per service
ServiceSummaries == {EmptyDict, [s \in {"EC2"} |-> 0], [s \in {"EC2", "S3"} |-> 5]}

\* Lines 135-144: the session is created and the linked accounts are
\* discovered; any exception is printed and leaves no account
DiscoverAccountsCe ==
    /\ script = CostScript
    /\ pc = "aws_discover"
    /\ calls' = calls \o <<Call("Session", "", ""), Call("get_dimension_values", "", "")>>
    /\ \/ /\ \E found \in CatalogHistories : todo' = found
          /\ UNCHANGED <<caught, log>>
       \/ /\ todo' = <<>>
          /\ caught' = Append(caught, Caught("get_linked_accounts_ce", ""))
          /\ log' = Append(log, LogLine("ERROR", "Failed to get linked accounts", ""))
    /\ pc' = "aws_profiles"
    /\ UNCHANGED <<script, fetchVars, argv, exit_status, regions, cmpVars>>

\* [(aid, nm) for aid, nm in dedup if aid == args.account_id]
FilterByAccountId(list, account_id) ==
    IF Truthy(account_id)
    THEN LET Wanted(account) == account[1] = account_id IN SelectSeq(list, Wanted)
    ELSE list

\* Lines 146-171: the account of a local profile is appended, an exception of
\* its lookup is passed over; then the list is de-duplicated and filtered
AddLocalProfiles ==
    /\ script = CostScript
    /\ pc = "aws_profiles"
    /\ IF argv.profiles = <<>>
       THEN /\ todo' = FilterByAccountId(Dedup(todo), argv.account_id)
            /\ UNCHANGED <<calls, caught>>
       ELSE LET prof == argv.profiles[1]
            IN /\ calls' = calls \o <<Call("Session", "", prof),
                                      Call("get_caller_identity", "", prof)>>
               /\ \/ /\ \E aid \in AccountIds :
                          todo' = FilterByAccountId(Dedup(Append(todo, <<aid, "profile:dev">>)),
                                                    argv.account_id)
                     /\ UNCHANGED caught
                  \/ /\ todo' = FilterByAccountId(Dedup(todo), argv.account_id)
                     /\ caught' = Append(caught, Caught("profile", prof))
    /\ pc' = "aws_account"
    /\ UNCHANGED <<script, fetchVars, argv, exit_status, log, regions, cmpVars>>

\* The sts.assume_role calls of assume_role that end in a ClientError, and what
\* each leaves in the histories
AssumeCalls(account_id, role_names, n) ==
    [i \in 1..n |-> Call("assume_role", account_id, role_names[i])]
AssumeCaught(account_id, n) ==
    [i \in 1..n |-> Caught("assume_role", account_id)]

\* Lines 175-185: the next account is announced, a role is assumed (each role
\* name in turn, a ClientError moving on to the next name) and the enabled
\* regions are listed; without a session, or on a ClientError of the listing,
\* the loop continues with the next account; any other exception ends the run
ProcessAccount ==
    /\ script = CostScript
    /\ pc = "aws_account"
    /\ todo # <<>>
    /\ LET account_id == Head(todo)[1]
           role_names == argv.role_names
           processing == LogLine("INFO", "Processing account", account_id)
       IN /\ todo' = Tail(todo)
          /\ section' = Head(todo)
          /\ log' = Append(log, processing)
          /\ \E refused \in 0..Len(role_names) :
               LET tried == AssumeCalls(account_id, role_names, refused)
                   passed == AssumeCaught(account_id, refused)
               IN \/ /\ refused = Len(role_names)
                     /\ calls' = calls \o tried
                     /\ caught' = caught \o passed
                     /\ regions' = <<>>
                     /\ UNCHANGED <<pc, exit_status>>
                  \/ /\ refused < Len(role_names)
                     /\ LET assumed == Call("assume_role", account_id, role_names[refused + 1])
                            listing == Call("describe_regions", account_id, <<>>)
                        IN \/ /\ \E enabled \in RegionLists :
                                    /\ regions' = enabled
                                    /\ calls' = calls \o tried \o
                                                <<assumed, Call("describe_regions", account_id, enabled)>>
                              /\ caught' = caught \o passed
                              /\ pc' = "aws_region"
                              /\ UNCHANGED exit_status
                           \/ /\ calls' = calls \o tried \o <<assumed, listing>>
                              /\ caught' = Append(caught \o passed,
                                                  Caught("list_enabled_regions", account_id))
                              /\ regions' = <<>>
                              /\ UNCHANGED <<pc, exit_status>>
                           \/ /\ \E reached \in {<<assumed>>, <<assumed, listing>>} :
                                    calls' = calls \o tried \o reached
                              /\ caught' = caught \o passed
                              /\ regions' = <<>>
                              /\ exit_status' = "traceback"
                              /\ pc' = "done"
    /\ UNCHANGED <<script, fetchVars, argv, period1_costs, period2_costs, comparisons,
                   printed, csv_rows, csv_written>>

\* Lines 187-199: the body of the region loop for the first region it reaches:
\* the service totals are fetched, printed when one is positive, and `break`
\* leaves the loop; an exception of the fetch ends the run
ProcessRegion ==
    /\ script = CostScript
    /\ pc = "aws_region"
    /\ IF regions = <<>>
       THEN /\ pc' = "aws_account"
            /\ UNCHANGED <<calls, log, exit_status, regions>>
       ELSE LET region == Head(regions)
            IN /\ calls' = Append(calls, Call("get_cost_and_usage", section[1], region))
               /\ regions' = Tail(regions)
               /\ \/ /\ \E summary \in ServiceSummaries :
                          log' = IF \E key \in DOMAIN summary : summary[key] > 0
                                 THEN Append(log, LogLine("INFO", "Found costs", region))
                                 ELSE log
                     /\ pc' = "aws_account"
                     /\ UNCHANGED exit_status
                  \/ /\ exit_status' = "traceback"
                     /\ pc' = "done"
                     /\ UNCHANGED log
    /\ UNCHANGED <<script, fetchVars, argv, caught, todo, period1_costs, period2_costs,
                   comparisons, section, printed, csv_rows, csv_written>>

\* After the last account main returns
ReturnFromMain ==
    /\ script = CostScript
    /\ pc = "aws_account"
    /\ todo = <<>>
    /\ exit_status' = "0"
    /\ pc' = "done"
    /\ UNCHANGED <<script, fetchVars, argv, log, calls, caught, todo, regions, cmpVars>>

InitAwsCost ==
    /\ script = CostScript
    /\ pc = "aws_discover"
    /\ IdleFetch
    /\ argv \in CostCommandLines
    /\ exit_status = None
    /\ log = <<>>
    /\ calls = <<>>
    /\ caught = <<>>
    /\ todo = <<>>
    /\ regions = <<>>
    /\ period1_costs = EmptyDict
    /\ period2_costs = EmptyDict
    /\ comparisons = <<>>
    /\ section = <<>>
    /\ printed = <<>>
    /\ csv_rows = <<>>
    /\ csv_written = FALSE

NextAwsCost ==
    \/ DiscoverAccountsCe
    \/ AddLocalProfiles
    \/ ProcessAccount
    \/ ProcessRegion
    \/ ReturnFromMain

SpecAwsCost == InitAwsCost /\ [][NextAwsCost]_vars

-----------------------------------------------------------------------------
(* Claims about the account loops *)

\* An exception caught while an account or region was processed has a printed
\* error line that names the unit
Reported(exception) ==
    \E i \in 1..Len(log) : log[i].level = "ERROR" /\ log[i].unit = exception.unit

\* C17: in every multi-account loop a failure while one account or region is
\* processed is caught and logged with that unit's identity, and the loop goes
\* on to the remaining accounts, so that the run reaches its end.  Read on the
\* account loop of aws_cost.main: no run ends in a traceback, and every
\* exception caught inside the loop is reported with its account.
C17_AccountFailureContained ==
    script = CostScript =>
        /\ exit_status # "traceback"
        /\ \A i \in 1..Len(caught) :
             caught[i].place \in {"assume_role", "list_enabled_regions"} => Reported(caught[i])

\* C18: every error a report catches produces a log line: no exception is
\* caught (failed role assumption, failed region listing, failed local-profile
\* lookup, failed account discovery) without an error line for its unit.
C18_CaughtErrorsLogged ==
    script = CostScript => \A i \in 1..Len(caught) : Reported(caught[i])

\* The loop of aws_cost.main is between two accounts, or past the last one
BetweenAccounts ==
    /\ script = CostScript
    /\ pc = "aws_account" \/ (pc = "done" /\ exit_status = "0")

\* C20: in aws_cost.main, for every account whose role assumption and region
\* listing succeed, each enabled region of the account has had its 30-day
\* service totals fetched before the loop moves on.
C20_EveryEnabledRegionQueried ==
    BetweenAccounts =>
        \A i \in 1..Len(calls) :
            calls[i].api = "describe_regions" =>
                \A k \in 1..Len(calls[i].arg) :
                    \E j \in i + 1..Len(calls) :
                        /\ calls[j].api = "get_cost_and_usage"
                        /\ calls[j].account = calls[i].account
                        /\ calls[j].arg = calls[i].arg[k]

-----------------------------------------------------------------------------
(* Termination of the cursor loops.  The loop is straight-line code around a
   blocking call, so a step that can be taken is taken: weak fairness of the
   loop's steps.  The upstream serves a finite result: the response of page
   MaxPages, at the latest, carries no cursor or an empty one. *)

SpecCatalogFair == SpecCatalog /\ WF_vars(NextCatalog)

\* The catalog loop has been left
LoopLeft == pc \in {"dedup", "done", "cost_init"}

\* C19: a cursor-driven pagination loop terminates when the upstream's page
\* sequence is finite; it requests each page once (the n-th request asks for
\* page n), waits for the response before it requests the next page, and makes
\* no request after the first response without a cursor (absent or empty).  The
\* loop has no page bound of its own: while it runs, a request is never held
\* back.
C19_PaginationTerminates ==
    /\ <>LoopLeft
    /\ [][IsRequest =>
            /\ pc = "dim_request" /\ pc' = "dim_values"
            /\ kwargsToken' = (IF npages = 0 THEN None ELSE Cursor(npages + 1))]_vars
    /\ [][IsEndOfPage /\ respToken \in {None, ""} => LoopLeft']_vars
    /\ [][LoopLeft => LoopLeft' /\ npages' = npages]_vars
    /\ [](pc = "dim_request" => ENABLED GetDimensionValues)

\* A fetch has ended after two pages, the second response carrying an empty
\* cursor
C19_Witness ==
    /\ script = ListScript
    /\ pc = "done"
    /\ npages = 2
    /\ respToken = ""
    /\ kwargsToken = Cursor(2)

-----------------------------------------------------------------------------
(* Claims about the row list of aws_cost_compare.main *)

\* The overall section of main is behind it
OverallExported ==
    /\ script = CompareScript
    /\ pc \in {"account_fetch", "account"} \/ (pc = "done" /\ exit_status = "0")

\* The rows the CSV has under an account id
HasRows(account_id) == \E i \in 1..Len(csv_rows) : csv_rows[i].account_id = account_id

\* The place of an account's "Fetching costs" line in the log, 0 without one
FetchedAt(account_id) ==
    LET at == {i \in 1..Len(log) : log[i].text = "Fetching costs" /\ log[i].unit = account_id}
    IN IF at = {} THEN 0 ELSE CHOOSE i \in at : TRUE

\* The account's fetch failed, or it had no costs in either period
PassedOver(account_id) ==
    \E i \in 1..Len(log) :
        /\ log[i].unit = account_id
        /\ log[i].text \in {"Failed to fetch costs", "No costs found"}

\* The state holds the finished comparison of the account fetched last
ComparedAccount ==
    /\ pc = "account_fetch" \/ pc = "done"
    /\ log # <<>>
    /\ log[Len(log)].text = "Fetching costs"
    /\ log[Len(log)].unit = section[1]

\* C21: the row list of aws_cost_compare.main is section-atomic and ordered.
\* The "ALL" section comes first and ends with its only TOTAL row; then each
\* linked account, in catalog order, contributes either nothing (a fetch of
\* either period failed, no costs in either period, or both period totals
\* below one cent) or its service rows immediately followed by exactly one
\* TOTAL row of the same account id.
C21_SectionAtomicRows ==
    /\ [](OverallExported =>
            /\ csv_rows # <<>>
            /\ csv_rows[1].account_id = "ALL"
            /\ csv_rows[Len(csv_rows)].service = "TOTAL"
            /\ \A i \in 1..Len(csv_rows) - 1 :
                 IF csv_rows[i].service = "TOTAL"
                 THEN csv_rows[i + 1].account_id # csv_rows[i].account_id
                 ELSE csv_rows[i + 1].account_id = csv_rows[i].account_id
            /\ \A i, j \in 1..Len(csv_rows) :
                 /\ i < j
                 /\ csv_rows[i].account_id = csv_rows[j].account_id
                 => /\ csv_rows[i].service # "TOTAL"
                    /\ \A k \in i..j : csv_rows[k].account_id = csv_rows[i].account_id
            /\ \A i, j \in 1..Len(csv_rows) :
                 i < j /\ csv_rows[i].account_id # csv_rows[j].account_id =>
                     /\ csv_rows[j].account_id # "ALL"
                     /\ csv_rows[i].account_id # "ALL" =>
                          /\ FetchedAt(csv_rows[i].account_id) > 0
                          /\ FetchedAt(csv_rows[i].account_id) < FetchedAt(csv_rows[j].account_id)
            /\ \A a \in AccountIds :
                 /\ PassedOver(a) => ~HasRows(a)
                 /\ HasRows(a) <=> \E t \in 1..Len(printed) : printed[t].title[1] = a
            /\ ComparedAccount =>
                 (HasRows(section[1])
                    <=> (SumPeriod1(comparisons) >= 10 \/ SumPeriod2(comparisons) >= 10)))
    /\ [][script = CompareScript /\ pc = "account_fetch" /\ log' # log =>
            /\ todo # <<>>
            /\ todo' = Tail(todo)
            /\ \E i \in Len(log) + 1..Len(log') :
                 log'[i].text = "Fetching costs" /\ log'[i].unit = Head(todo)[1]]_vars
    /\ [][script = CompareScript /\ csv_rows' # csv_rows =>
            /\ pc \in {"overall", "account"}
            /\ \E n \in 1..Len(csv_rows') :
                 /\ csv_rows = SubSeq(csv_rows', 1, n - 1)
                 /\ csv_rows'[Len(csv_rows')].service = "TOTAL"
                 /\ \A i \in n..Len(csv_rows') : csv_rows'[i].account_id = section[1]]_vars

\* A run has written its CSV: the first account's second fetch failed after its
\* first succeeded, and the second account has a service row and its TOTAL
C21_Witness ==
    /\ script = CompareScript
    /\ pc = "done"
    /\ csv_written
    /\ caught = <<Caught("get_service_costs", "111")>>
    /\ Cardinality({i \in 1..Len(calls) : calls[i].account = "111"}) = 2
    /\ ~HasRows("111")
    /\ Len(CsvServiceRowsOf("ALL")) >= 1
    /\ Len(CsvServiceRowsOf("222")) >= 1
    /\ csv_rows[Len(csv_rows)].account_id = "222"

====
